---- MODULE Spec2Model ----
(***************************************************************************)
(* Queue/worker coordination of the PDF summarizer: RedisService           *)
(* (app/services/redis_service.py) and the worker loop (app/worker.py).    *)
(*                                                                         *)
(* Every Redis command is one atomic step.  The gateway (queue_document),  *)
(* the workers (process_documents) and a status client                     *)
(* (get_document_status) are separate processes whose commands interleave. *)
(***************************************************************************)
EXTENDS Integers, Sequences, FiniteSets, TLC

(* ---------------------------- bounds ---------------------------------- *)
MaxDocs == 2        \* documents queue_document is called for
NumWorkers == 2     \* worker processes running process_documents
MaxFaults == 1      \* exceptions raised / crashes injected in the worker steps

Docs == 1..MaxDocs
Workers == 1..NumWorkers
UnseenDoc == MaxDocs + 1   \* an id queue_document never returns
None == "None"      \* Python's None where a string field is read with .get()

(* ------------------------ program constants --------------------------- *)
PYPDF == "pypdf"
GEMINI == "gemini"
MISTRAL == "mistral"
ParserType == {PYPDF, GEMINI, MISTRAL}

\* payloads are byte strings; the empty one is a legal upload body
Payloads == {<<>>, <<37, 80>>}
\* what the parse collaborators can return: pages, empty ones dropped
ParseOutputs == {<<>>, <<"Page one text">>}
\* what the summarize collaborator can return
Summaries == {"Summary."}
\* expiration of a staged blob, seconds
BlobTTL == 3600

VARIABLES
    blob,           \* Blob Staging Store: temp_doc:<id> -> payload
    stream,         \* the stream document_processing: sequence of [id, fields]
    lastDelivered,  \* the group's last-delivered-id
    pel,            \* the group's pending entries list (delivered, not acked)
    result,         \* Result Store: document:<id> -> JSON text
    gw,             \* the gateway's position in queue_document
    queued,         \* ids queue_document has returned -> what was enqueued
    wk,             \* each worker's position and locals in process_documents
    st,             \* the status client's position in get_document_status
    faults,         \* number of exceptions/crashes injected so far
    \* history, read by the properties only
    allEntries,     \* every entry ever appended, by id
    deliveries,     \* id -> how many times XREADGROUP handed it out
    handed,         \* <<worker, entry_id>> pairs get_next_document returned
    fetched,        \* entry ids whose blob key existed when it was fetched
    missing,        \* entry ids whose blob was absent when it was fetched
    abandoned,      \* entry ids whose attempt ended without acknowledgment
    faulted,        \* entry ids whose attempt hit an exception or a crash
    stored,         \* document id -> arguments of store_document
    succeeded,      \* document ids whose iteration ran to its last line
    staged          \* document ids whose blob SETEX has written

redisVars == <<blob, stream, lastDelivered, pel, result>>
histVars == <<allEntries, deliveries, handed, fetched, missing, abandoned,
              faulted, stored, succeeded>>
vars == <<blob, stream, lastDelivered, pel, result, gw, queued, wk, st, faults,
          allEntries, deliveries, handed, fetched, missing, abandoned,
          faulted, stored, succeeded, staged>>

(* --------------------------- helpers ---------------------------------- *)
\* dict.get(field): None when the field is absent
Get(entry, field) == IF field \in DOMAIN entry THEN entry[field] ELSE None

\* a key-value store with key k set to v / with key k deleted
SetKey(store, k, v) == [x \in (DOMAIN store) \cup {k} |-> IF x = k THEN v ELSE store[x]]
DelKey(store, k) == [x \in (DOMAIN store) \ {k} |-> store[x]]

\* redis GET of temp_doc:<k>: the bytes, or the empty store value for None
HasKey(store, k) == k \in DOMAIN store

\* (mutation) the content is not tested
Truthy_Unchecked(store, k) == TRUE

\* Python truthiness of what GET temp_doc:<k> returned (None or bytes)
Truthy(store, k) == HasKey(store, k) /\ Len(store[k].data) > 0

\* the id XADD assigns: ids grow with every append
NextId == Len(allEntries) + 1

\* XRANGE: the entries of the stream, oldest first
XRange == stream

\* the first entry of a scan whose document_id matches, as the for loops find it
Matching(entries, document_id) ==
    SelectSeq(entries, LAMBDA e : Get(e.fields, "document_id") = document_id)

\* (mutation) the entry is not deleted
XDel_Kept(entries, id) == entries

\* XDEL id
XDel(entries, id) == SelectSeq(entries, LAMBDA e : e.id # id)

\* (mutation) the read also returns what is pending, as a read from id 0 would
Undelivered_WithPending ==
    SelectSeq(stream, LAMBDA e : e.id > lastDelivered \/ e.id \in pel)

\* XREADGROUP ... ">" count=1: the entries never delivered to the group
Undelivered == SelectSeq(stream, LAMBDA e : e.id > lastDelivered)

\* (mutation) the group does not move its last-delivered-id
LastDeliveredAfter_Stale(e) == lastDelivered

\* the group's last-delivered-id after entry e was handed out
LastDeliveredAfter(e) == e.id

(* json.dumps / json.loads of {"content": [...], "summary": "..."} as a    *)
(* sequence of tokens: punctuation and quoted strings                      *)
Punct(c) == [k |-> "punct", v |-> c]
Str(s) == [k |-> "str", v |-> s]

RECURSIVE JsonList(_)
JsonList(items) ==
    IF items = <<>> THEN <<>>
    ELSE IF Len(items) = 1 THEN <<Str(items[1])>>
    ELSE <<Str(items[1]), Punct(",")>> \o JsonList(Tail(items))

JsonDumps(content, summary) ==
    <<Punct("{"), Str("content"), Punct(":"), Punct("[")>>
    \o JsonList(content)
    \o <<Punct("]"), Punct(","), Str("summary"), Punct(":"), Str(summary), Punct("}")>>

\* position of the first token equal to t, 0 when there is none
IndexOf(text, t) ==
    IF \E i \in 1..Len(text) : text[i] = t
    THEN CHOOSE i \in 1..Len(text) : text[i] = t /\ \A j \in 1..(i-1) : text[j] # t
    ELSE 0

JsonLoads(text) ==
    LET open == IndexOf(text, Punct("["))
        close == IndexOf(text, Punct("]"))
        inner == SubSeq(text, open + 1, close - 1)
        strs == SelectSeq(inner, LAMBDA t : t.k = "str")
    IN [content |-> [i \in 1..Len(strs) |-> strs[i].v],
        summary |-> text[Len(text) - 1].v]

\* get_document: the parsed record, or None (here: no record) when the key is unset
HasDocument(document_id) == document_id \in DOMAIN result /\ Len(result[document_id]) > 0
GetDocument(document_id) == JsonLoads(result[document_id])

\* (mutation) the else branch parses instead of raising
Dispatches_Any(parser_type) == TRUE

\* the parser kinds process_documents dispatches on
Dispatches(parser_type) == parser_type = PYPDF \/ parser_type = GEMINI

NoEntry == [document_id |-> UnseenDoc, status |-> None]
NoResponse == [status |-> None]
IdleWorker == [pc |-> "poll", entry_id |-> 0, entry |-> NoEntry, document_id |-> UnseenDoc,
               parser_type |-> None, parsed_content |-> <<>>, summary |-> None,
               target |-> 0]
IdleGateway == [pc |-> "idle", issued |-> 0, content |-> <<>>, parser_type |-> None]
IdleStatus == [pc |-> "ready", document_id |-> UnseenDoc, response |-> NoResponse,
               scanned |-> FALSE]

(* ---------------------------- initial state --------------------------- *)
\* RedisService.__init__ has run: empty stores, the group exists at id 0
Init ==
    /\ blob = <<>>
    /\ stream = <<>>
    /\ lastDelivered = 0
    /\ pel = {}
    /\ result = <<>>
    /\ gw = IdleGateway
    /\ queued = <<>>
    /\ wk = [w \in Workers |-> IdleWorker]
    /\ st = IdleStatus
    /\ faults = 0
    /\ allEntries = <<>>
    /\ deliveries = <<>>
    /\ handed = {}
    /\ fetched = {}
    /\ missing = {}
    /\ abandoned = {}
    /\ faulted = {}
    /\ stored = <<>>
    /\ succeeded = {}
    /\ staged = {}

(* ------------------------- queue_document ----------------------------- *)
\* (mutation) the blob is not staged before the entry is appended
QueueSetex_NoStage(content, parser_type) ==
    /\ gw.pc = "idle"
    /\ gw.issued < MaxDocs
    /\ gw' = [pc |-> "xadd", issued |-> gw.issued + 1, content |-> content,
              parser_type |-> parser_type]
    /\ UNCHANGED <<staged, redisVars, queued, wk, st, faults, histVars>>

\* (mutation) the blob is written with SET, without an expiration
QueueSetex_NoTTL(content, parser_type) ==
    /\ gw.pc = "idle"
    /\ gw.issued < MaxDocs
    /\ blob' = SetKey(blob, gw.issued + 1, [data |-> content, ttl |-> 0])
    /\ staged' = staged \cup {gw.issued + 1}
    /\ gw' = [pc |-> "xadd", issued |-> gw.issued + 1, content |-> content,
              parser_type |-> parser_type]
    /\ UNCHANGED <<stream, lastDelivered, pel, result, queued, wk, st, faults, histVars>>

\* uuid4 and SETEX temp_doc:<id> 3600 content
QueueSetex(content, parser_type) ==
    /\ gw.pc = "idle"
    /\ gw.issued < MaxDocs
    /\ LET document_id == gw.issued + 1 IN
        /\ blob' = SetKey(blob, document_id, [data |-> content, ttl |-> BlobTTL])
        /\ staged' = staged \cup {document_id}
        /\ gw' = [pc |-> "xadd", issued |-> document_id, content |-> content,
                  parser_type |-> parser_type]
    /\ UNCHANGED <<stream, lastDelivered, pel, result, queued, wk, st, faults, histVars>>

\* (mutation) the entry is appended with another status
QueuedFields_Processing(document_id, parser_type, timestamp) ==
    [document_id |-> document_id, parser_type |-> parser_type,
     status |-> "processing", timestamp |-> timestamp]

\* the fields of the entry queue_document appends
QueuedFields(document_id, parser_type, timestamp) ==
    [document_id |-> document_id, parser_type |-> parser_type,
     status |-> "queued", timestamp |-> timestamp]

\* XADD document_processing {...status: queued} and return document_id
QueueXadd ==
    /\ gw.pc = "xadd"
    /\ LET e == [id |-> NextId,
                 fields |-> QueuedFields(gw.issued, gw.parser_type, NextId)] IN
        /\ stream' = Append(stream, e)
        /\ allEntries' = Append(allEntries, e)
        /\ deliveries' = Append(deliveries, 0)
    /\ queued' = SetKey(queued, gw.issued,
                        [content |-> gw.content, parser_type |-> gw.parser_type,
                         entry_id |-> NextId])
    /\ gw' = [IdleGateway EXCEPT !.issued = gw.issued]
    /\ UNCHANGED <<staged, blob, lastDelivered, pel, result, wk, st, faults, handed, fetched,
                   missing, abandoned, faulted, stored, succeeded>>

\* XADD raises: logged and re-raised, no id is returned, the blob stays staged
QueueRaise ==
    /\ gw.pc = "xadd"
    /\ faults < MaxFaults
    /\ faults' = faults + 1
    /\ gw' = [IdleGateway EXCEPT !.issued = gw.issued]
    /\ UNCHANGED <<staged, redisVars, queued, wk, st, histVars>>

\* the TTL of a staged blob runs out
Expire(document_id) ==
    /\ HasKey(blob, document_id)
    /\ blob[document_id].ttl > 0
    /\ blob' = DelKey(blob, document_id)
    /\ UNCHANGED <<staged, stream, lastDelivered, pel, result, gw, queued, wk, st, faults, histVars>>

(* ------------------ get_next_document (worker side) ------------------- *)
\* where a worker is between claim and acknowledge
InAttempt(w) == wk[w].pc # "poll"

\* (mutation) the handler leaves the loop
GiveUp_Exit(w) ==
    /\ wk' = [wk EXCEPT ![w] = [IdleWorker EXCEPT !.pc = "stopped"]]
    /\ abandoned' = abandoned \cup {wk[w].entry_id}

\* the attempt of worker w ends without acknowledgment: back to the poll
GiveUp(w) ==
    /\ wk' = [wk EXCEPT ![w] = IdleWorker]
    /\ abandoned' = abandoned \cup {wk[w].entry_id}

\* (mutation) the read starts at id 0: pending entries are handed out again
Poll_FromStart(w) ==
    /\ wk[w].pc = "poll"
    /\ \E i \in 1..Len(stream) :
        /\ stream[i].id \in pel \/ stream[i].id > lastDelivered
        /\ \A j \in 1..(i-1) : ~(stream[j].id \in pel \/ stream[j].id > lastDelivered)
        /\ pel' = pel \cup {stream[i].id}
        /\ lastDelivered' = IF stream[i].id > lastDelivered
                            THEN stream[i].id ELSE lastDelivered
        /\ deliveries' = [deliveries EXCEPT ![stream[i].id] = @ + 1]
        /\ wk' = [wk EXCEPT ![w] = [IdleWorker EXCEPT !.pc = "fetch",
                                                    !.entry_id = stream[i].id,
                                                    !.entry = stream[i].fields]]
    /\ UNCHANGED <<staged, blob, stream, result, gw, queued, st, faults, allEntries,
                   handed, fetched, missing, abandoned, faulted, stored, succeeded>>

\* XREADGROUP document_processors processor_1 {stream: ">"} count=1 returned
\* an entry: the group records it as pending and moves its last-delivered-id.
\* (The 1 s block running out with nothing new leaves every variable as it is.)
Poll(w) ==
    /\ wk[w].pc = "poll"
    /\ Undelivered # <<>>
    /\ LET e == Head(Undelivered) IN
        /\ pel' = pel \cup {e.id}
        /\ lastDelivered' = LastDeliveredAfter(e)
        /\ deliveries' = [deliveries EXCEPT ![e.id] = @ + 1]
        /\ wk' = [wk EXCEPT ![w] = [IdleWorker EXCEPT !.pc = "fetch", !.entry_id = e.id,
                                                    !.entry = e.fields]]
    /\ UNCHANGED <<staged, blob, stream, result, gw, queued, st, faults, allEntries, handed,
                   fetched, missing, abandoned, faulted, stored, succeeded>>

\* (mutation) the status of the entry read is not tested
IsQueued_Any(entry) == TRUE

\* the test get_next_document makes on the entry it read
IsQueued(entry) == Get(entry, "status") = "queued"

\* the status test and GET temp_doc:<id>; the tuple is returned only for a
\* queued entry with truthy content, otherwise get_next_document returns None
Fetch(w) ==
    /\ wk[w].pc = "fetch"
    /\ LET document_id == Get(wk[w].entry, "document_id")
           parser_type == Get(wk[w].entry, "parser_type") IN
        IF IsQueued(wk[w].entry)
        THEN /\ fetched' = IF HasKey(blob, document_id)
                           THEN fetched \cup {wk[w].entry_id} ELSE fetched
             /\ missing' = IF HasKey(blob, document_id)
                           THEN missing ELSE missing \cup {wk[w].entry_id}
             /\ IF Truthy(blob, document_id)
                THEN /\ wk' = [wk EXCEPT ![w].pc = "parse",
                                         ![w].document_id = document_id,
                                         ![w].parser_type = parser_type]
                     /\ handed' = handed \cup {<<w, wk[w].entry_id>>}
                     /\ UNCHANGED abandoned
                ELSE /\ GiveUp(w)
                     /\ UNCHANGED handed
        ELSE /\ GiveUp(w)
             /\ UNCHANGED <<handed, fetched, missing>>
    /\ UNCHANGED <<staged, redisVars, gw, queued, st, faults, allEntries, deliveries, faulted,
                   stored, succeeded>>

(* ------------------------- process_documents -------------------------- *)
\* dispatch on parser_type and parse; an unsupported kind raises ValueError,
\* which the inner handler logs before the loop continues
Parse(w) ==
    /\ wk[w].pc = "parse"
    /\ IF Dispatches(wk[w].parser_type)
       THEN /\ \E pages \in ParseOutputs :
                 wk' = [wk EXCEPT ![w].pc = "summarize", ![w].parsed_content = pages]
            /\ UNCHANGED abandoned
       ELSE GiveUp(w)
    /\ UNCHANGED <<staged, redisVars, gw, queued, st, faults, allEntries, deliveries, handed,
                   fetched, missing, faulted, stored, succeeded>>

\* (mutation) the entry is acknowledged before the document is stored
Summarize_AckFirst(w) ==
    /\ wk[w].pc = "summarize"
    /\ \E summary \in Summaries :
         wk' = [wk EXCEPT ![w].pc = "ack", ![w].summary = summary]
    /\ UNCHANGED <<staged, redisVars, gw, queued, st, faults, histVars>>

\* generate_summary("\n".join(parsed_content))
Summarize(w) ==
    /\ wk[w].pc = "summarize"
    /\ \E summary \in Summaries :
         wk' = [wk EXCEPT ![w].pc = "store_set", ![w].summary = summary]
    /\ UNCHANGED <<staged, redisVars, gw, queued, st, faults, histVars>>

(* -------------------------- store_document ---------------------------- *)
\* SET document:<id> json.dumps({content, summary})
StoreSet(w) ==
    /\ wk[w].pc = "store_set"
    /\ result' = SetKey(result, wk[w].document_id,
                        JsonDumps(wk[w].parsed_content, wk[w].summary))
    /\ stored' = SetKey(stored, wk[w].document_id,
                        [content |-> wk[w].parsed_content, summary |-> wk[w].summary])
    /\ wk' = [wk EXCEPT ![w].pc = "store_scan"]
    /\ UNCHANGED <<staged, blob, stream, lastDelivered, pel, gw, queued, st, faults, allEntries,
                   deliveries, handed, fetched, missing, abandoned, faulted, succeeded>>

\* XRANGE and the search for the document's entry; with none found
\* store_document returns at once
StoreScan(w) ==
    /\ wk[w].pc = "store_scan"
    /\ LET found == Matching(XRange, wk[w].document_id) IN
        IF found # <<>>
        THEN wk' = [wk EXCEPT ![w].pc = "store_xdel", ![w].target = Head(found).id]
        ELSE wk' = [wk EXCEPT ![w].pc = "ack"]
    /\ UNCHANGED <<staged, redisVars, gw, queued, st, faults, histVars>>

\* XDEL of the entry found
StoreXdel(w) ==
    /\ wk[w].pc = "store_xdel"
    /\ stream' = XDel(stream, wk[w].target)
    /\ wk' = [wk EXCEPT ![w].pc = "store_xadd"]
    /\ UNCHANGED <<staged, blob, lastDelivered, pel, result, gw, queued, st, faults, histVars>>

\* (mutation) the marker is appended with status processing
StoreXadd_Processing(w) ==
    /\ wk[w].pc = "store_xadd"
    /\ LET e == [id |-> NextId,
                 fields |-> [document_id |-> wk[w].document_id, status |-> "processing",
                             timestamp |-> NextId]] IN
        /\ stream' = Append(stream, e)
        /\ allEntries' = Append(allEntries, e)
        /\ deliveries' = Append(deliveries, 0)
    /\ wk' = [wk EXCEPT ![w].pc = "store_delete"]
    /\ UNCHANGED <<staged, blob, lastDelivered, pel, result, gw, queued, st, faults, handed,
                   fetched, missing, abandoned, faulted, stored, succeeded>>

\* (mutation) the deleted entry is not replaced by a marker
StoreXadd_NoMarker(w) ==
    /\ wk[w].pc = "store_xadd"
    /\ wk' = [wk EXCEPT ![w].pc = "store_delete"]
    /\ UNCHANGED <<staged, redisVars, gw, queued, st, faults, histVars>>

\* XADD of the marker {document_id, status: completed, timestamp}
StoreXadd(w) ==
    /\ wk[w].pc = "store_xadd"
    /\ LET e == [id |-> NextId,
                 fields |-> [document_id |-> wk[w].document_id, status |-> "completed",
                             timestamp |-> NextId]] IN
        /\ stream' = Append(stream, e)
        /\ allEntries' = Append(allEntries, e)
        /\ deliveries' = Append(deliveries, 0)
    /\ wk' = [wk EXCEPT ![w].pc = "store_delete"]
    /\ UNCHANGED <<staged, blob, lastDelivered, pel, result, gw, queued, st, faults, handed,
                   fetched, missing, abandoned, faulted, stored, succeeded>>

\* (mutation) the staged blob is not deleted
BlobAfterDelete_Kept(store, document_id) == store

\* the staged blob after DEL temp_doc:<id>
BlobAfterDelete(store, document_id) == DelKey(store, document_id)

\* (mutation) the clean-up deletes document:<id> instead of temp_doc:<id>
StoreDelete_Result(w) ==
    /\ wk[w].pc = "store_delete"
    /\ result' = DelKey(result, wk[w].document_id)
    /\ wk' = [wk EXCEPT ![w].pc = "ack"]
    /\ UNCHANGED <<staged, blob, stream, lastDelivered, pel, gw, queued, st, faults, histVars>>

\* DEL temp_doc:<id>, then break: store_document returns
StoreDelete(w) ==
    /\ wk[w].pc = "store_delete"
    /\ blob' = BlobAfterDelete(blob, wk[w].document_id)
    /\ wk' = [wk EXCEPT ![w].pc = "ack"]
    /\ UNCHANGED <<staged, stream, lastDelivered, pel, result, gw, queued, st, faults, histVars>>

(* ----------------------- acknowledge_processing ----------------------- *)
\* XACK of the claimed entry_id; the iteration ends and the loop polls again
Ack(w) ==
    /\ wk[w].pc = "ack"
    /\ pel' = pel \ {wk[w].entry_id}
    /\ succeeded' = succeeded \cup {wk[w].document_id}
    /\ wk' = [wk EXCEPT ![w] = IdleWorker]
    /\ UNCHANGED <<staged, blob, stream, lastDelivered, result, gw, queued, st, faults,
                   allEntries, deliveries, handed, fetched, missing, abandoned, faulted,
                   stored>>

(* ------------------------- failures in a worker ----------------------- *)
\* (mutation) the entry is acknowledged on the way out of a failed attempt
Raise_Ack(w) ==
    /\ InAttempt(w)
    /\ faults < MaxFaults
    /\ faults' = faults + 1
    /\ GiveUp(w)
    /\ faulted' = faulted \cup {wk[w].entry_id}
    /\ pel' = pel \ {wk[w].entry_id}
    /\ UNCHANGED <<staged, blob, stream, lastDelivered, result, gw, queued, st,
                   allEntries, deliveries, handed, fetched, missing, stored, succeeded>>

\* a Redis command or a collaborator raises: get_next_document returns None,
\* or the handler of process_documents logs; either way the loop continues
Raise(w) ==
    /\ InAttempt(w)
    /\ faults < MaxFaults
    /\ faults' = faults + 1
    /\ GiveUp(w)
    /\ faulted' = faulted \cup {wk[w].entry_id}
    /\ UNCHANGED <<staged, redisVars, gw, queued, st, allEntries, deliveries, handed, fetched,
                   missing, stored, succeeded>>

\* the worker process dies between claim and acknowledge and is started
\* again: __init__ finds the group existing, the loop starts with a poll
Crash(w) ==
    /\ InAttempt(w)
    /\ faults < MaxFaults
    /\ faults' = faults + 1
    /\ wk' = [wk EXCEPT ![w] = IdleWorker]
    /\ abandoned' = abandoned \cup {wk[w].entry_id}
    /\ faulted' = faulted \cup {wk[w].entry_id}
    /\ UNCHANGED <<staged, redisVars, gw, queued, st, allEntries, deliveries, handed, fetched,
                   missing, stored, succeeded>>

(* ------------------------ get_document_status ------------------------- *)
\* the client asks for an id queue_document returned to it, or for an id
\* that was never issued
\* (mutation) the scan answers with the first entry of the log, whatever its document
ScanResponse_FirstEntry(entries, document_id) ==
    IF entries # <<>>
    THEN [status |-> IF "status" \in DOMAIN Head(entries).fields
                     THEN Head(entries).fields.status ELSE "queued",
          timestamp |-> Get(Head(entries).fields, "timestamp")]
    ELSE [status |-> "not_found"]

\* what the scan of the stream answers for document_id
ScanResponse(entries, document_id) ==
    LET found == Matching(entries, document_id) IN
    IF found # <<>>
    THEN [status |-> IF "status" \in DOMAIN Head(found).fields
                     THEN Head(found).fields.status ELSE "queued",
          timestamp |-> Get(Head(found).fields, "timestamp")]
    ELSE [status |-> "not_found"]

\* (mutation) the log is scanned first and the Result Store read afterwards
StatusGet_ScanFirst(document_id) ==
    /\ st.pc = "ready"
    /\ IF Matching(XRange, document_id) # <<>>
       THEN st' = [pc |-> "ready", document_id |-> document_id, scanned |-> TRUE,
                   response |-> ScanResponse(XRange, document_id)]
       ELSE st' = [pc |-> "scan", document_id |-> document_id, scanned |-> TRUE,
                   response |-> NoResponse]
    /\ UNCHANGED <<staged, redisVars, gw, queued, wk, faults, histVars>>

\* get_document first: a record in the Result Store answers the call
StatusGet(document_id) ==
    /\ st.pc = "ready"
    /\ IF HasDocument(document_id)
       THEN st' = [pc |-> "ready", document_id |-> document_id, scanned |-> FALSE,
                   response |-> [status |-> "completed",
                                 content |-> GetDocument(document_id).content,
                                 summary |-> GetDocument(document_id).summary]]
       ELSE st' = [pc |-> "scan", document_id |-> document_id, scanned |-> FALSE,
                   response |-> NoResponse]
    /\ UNCHANGED <<staged, redisVars, gw, queued, wk, faults, histVars>>

\* get_document_status run without interruption in the current state
GetDocumentStatus(document_id) ==
    IF HasDocument(document_id)
    THEN [status |-> "completed",
          content |-> GetDocument(document_id).content,
          summary |-> GetDocument(document_id).summary]
    ELSE ScanResponse(XRange, document_id)

\* XRANGE and the search for the document's entry
StatusScan ==
    /\ st.pc = "scan"
    /\ st' = [st EXCEPT !.pc = "ready", !.scanned = TRUE,
                        !.response = ScanResponse(XRange, st.document_id)]
    /\ UNCHANGED <<staged, redisVars, gw, queued, wk, faults, histVars>>

(* --------------------------- specification ---------------------------- *)
Worker(w) ==
    \/ Poll(w)
    \/ Fetch(w)
    \/ Parse(w)
    \/ Summarize(w)
    \/ StoreSet(w)
    \/ StoreScan(w)
    \/ StoreXdel(w)
    \/ StoreXadd(w)
    \/ StoreDelete(w)
    \/ Ack(w)

Next ==
    \/ \E content \in Payloads, parser_type \in ParserType : QueueSetex(content, parser_type)
    \/ QueueXadd
    \/ QueueRaise
    \/ \E d \in Docs : Expire(d)
    \/ \E w \in Workers : Worker(w)
    \/ \E w \in Workers : Raise(w)
    \/ \E w \in Workers : Crash(w)
    \/ \E d \in (DOMAIN queued) \cup {UnseenDoc} : StatusGet(d)
    \/ StatusScan

Spec == Init /\ [][Next]_vars

\* the gateway and the workers alone (the status client only reads)
NextWork ==
    \/ \E content \in Payloads, parser_type \in ParserType : QueueSetex(content, parser_type)
    \/ QueueXadd
    \/ QueueRaise
    \/ \E d \in Docs : Expire(d)
    \/ \E w \in Workers : Worker(w)
    \/ \E w \in Workers : Raise(w)
    \/ \E w \in Workers : Crash(w)

\* a running worker takes its next step (the loop never waits for anything
\* but the poll); nothing forces an enqueue, an expiry or a failure
FairSpec == Init /\ [][NextWork]_vars /\ \A w \in Workers : WF_vars(Worker(w))

\* Redis also removes every key whose expiration has come
ExpirySpec == FairSpec /\ \A d \in Docs : WF_vars(Expire(d))

(* ============================ properties ============================== *)
EntryIds == 1..(2 * MaxDocs)

\* XREADGROUP has handed entry id out at least n times
Delivered(id, n) == id \in 1..Len(deliveries) /\ deliveries[id] >= n

\* the entry queue_document appended for d and its parser kind, once it returned
EntryOf(d) == IF d \in DOMAIN queued THEN queued[d].entry_id ELSE 0
KindOf(d) == IF d \in DOMAIN queued THEN queued[d].parser_type ELSE None

\* XACK has removed a delivered entry from the pending list
Acked(id) == Delivered(id, 1) /\ id \notin pel

\* all workers are back at the poll and nothing is left to read
Quiet == Undelivered = <<>> /\ \A w \in Workers : wk[w].pc = "poll"

(* C1: after an iteration of the worker ran to its end for document D,     *)
(* get_document_status(D) answers completed with the content and summary   *)
(* that were passed to store_document, neither of them None, and the key   *)
(* temp_doc:D is gone from the blob store.                                 *)
C1_SuccessIsCompleted ==
    \A d \in succeeded :
        /\ GetDocumentStatus(d) = [status |-> "completed",
                                   content |-> stored[d].content,
                                   summary |-> stored[d].summary]
        /\ GetDocumentStatus(d).content \in ParseOutputs
        /\ GetDocumentStatus(d).summary # None
        /\ ~HasKey(blob, d)

C1_Witness ==
    \E d \in succeeded : stored[d].content # <<>> /\ Acked(queued[d].entry_id)

(* C2: once queue_document has returned D, and as long as no worker has    *)
(* written a result for D, get_document_status(D) answers queued.          *)
C2_QueuedAfterEnqueue ==
    \A d \in DOMAIN queued :
        ~HasKey(result, d) => GetDocumentStatus(d).status = "queued"

C2_Witness ==
    \E d \in DOMAIN queued, w \in Workers :
        /\ wk[w].pc = "store_set" /\ wk[w].document_id = d
        /\ ~HasKey(result, d)

(* C3 as claimed: every appended entry is delivered, and an entry whose    *)
(* attempt ended without acknowledgment is eventually delivered again.     *)
C3_RedeliveredAfterFailure ==
    \A id \in EntryIds :
        /\ [](id <= Len(allEntries) => <>Delivered(id, 1))
        /\ [](id \in abandoned => <>Delivered(id, 2))

(* C3 as amended: every appended entry is eventually delivered to a        *)
(* worker, and it is delivered once only: an entry whose attempt ended     *)
(* without acknowledgment stays pending and is never delivered again.      *)
C3_DeliveredExactlyOnce ==
    /\ \A id \in EntryIds : [](id <= Len(allEntries) => <>Delivered(id, 1))
    /\ [][\A id \in 1..Len(deliveries') : deliveries'[id] <= 1]_vars
    /\ [][\A id \in abandoned' : deliveries'[id] = 1 /\ id \in pel']_vars

C3_Witness ==
    \E id \in abandoned : id \in faulted /\ allEntries[id].fields.status = "queued" /\ Quiet

(* C4: with several workers on the same group and consumer name, no        *)
(* entry id is returned by get_next_document to more than one worker, and  *)
(* no two workers ever hold the same entry.                                *)
C4_NoDoubleClaim ==
    /\ \A p \in handed, q \in handed : p[2] = q[2] => p[1] = q[1]
    /\ \A v \in Workers, w \in Workers :
         (v # w /\ InAttempt(v) /\ InAttempt(w)) => wk[v].entry_id # wk[w].entry_id

C4_Witness ==
    \E v \in Workers, w \in Workers :
        /\ v # w
        /\ <<v, wk[v].entry_id>> \in handed
        /\ <<w, wk[w].entry_id>> \in handed
        /\ wk[v].pc = "parse" /\ wk[w].pc = "parse"

(* C5: an entry whose parser kind is neither pypdf nor gemini is never     *)
(* acknowledged and no result record is ever written for its document.     *)
C5_UnsupportedNeverStored ==
    \A d \in DOMAIN queued :
        queued[d].parser_type \notin {PYPDF, GEMINI} =>
            /\ ~HasKey(result, d)
            /\ ~Acked(queued[d].entry_id)
            /\ d \notin succeeded

C5_Witness ==
    \E d \in DOMAIN queued :
        /\ queued[d].parser_type = MISTRAL
        /\ \E w \in Workers : <<w, queued[d].entry_id>> \in handed
        /\ queued[d].entry_id \in abandoned
        /\ queued[d].entry_id \notin faulted

(* C6: whenever the Result Store holds a record for D when                 *)
(* get_document_status(D) reads it, the call answers completed with the    *)
(* content and summary of that record, as the worker stored them, and      *)
(* returns without scanning the log, whatever the log holds for D.         *)
C6_ResultStoreFirst ==
    [][(st.pc = "ready" /\ st' # st /\ HasKey(result, st'.document_id)) =>
         /\ st'.pc = "ready"
         /\ ~st'.scanned
         /\ st'.response = [status |-> "completed",
                            content |-> stored[st'.document_id].content,
                            summary |-> stored[st'.document_id].summary]]_vars

\* a call answered from the Result Store while the log still holds the
\* document's queued entry
C6_Witness ==
    /\ st.pc = "ready"
    /\ st.response.status = "completed"
    /\ ~st.scanned
    /\ \E i \in 1..Len(stream) :
         /\ stream[i].fields.document_id = st.document_id
         /\ stream[i].fields.status = "queued"

(* C7: whenever get_document_status answers completed, the same response   *)
(* carries the content and the summary, also when the call runs            *)
(* concurrently with store_document for the same document.                 *)
C7_CompletedCarriesContent ==
    (st.pc = "ready" /\ st.response.status = "completed") =>
        /\ "content" \in DOMAIN st.response
        /\ "summary" \in DOMAIN st.response

(* C8: under weak fairness of the worker loop, and unless a store          *)
(* operation or a collaborator fails in its attempt, every document        *)
(* enqueued with a supported parser kind whose blob is still staged when   *)
(* its entry is claimed eventually has a result record and its entry       *)
(* acknowledged, and get_document_status answers completed for it.         *)
Completed(d) ==
    /\ HasKey(result, d)
    /\ Acked(EntryOf(d))
    /\ GetDocumentStatus(d).status = "completed"

C8_StagedIsCompleted ==
    \A d \in Docs :
        [](( /\ KindOf(d) \in {PYPDF, GEMINI}
             /\ EntryOf(d) \in fetched )
           => <>(Completed(d) \/ EntryOf(d) \in faulted))

(* C9: a failure on document A never stops the worker loop and never       *)
(* touches another document: a step a worker takes for A leaves the blob,  *)
(* the log entries and the result record of every other document B as      *)
(* they are, a worker whose attempt ended is polling again, and after A    *)
(* failed every other document B is still claimed and, when its attempt    *)
(* starts with a payload and a supported kind and meets no failure of its  *)
(* own, completed.                                                         *)
OfDoc(entries, d) == SelectSeq(entries, LAMBDA e : e.fields.document_id = d)

Failed(a) == EntryOf(a) \in abandoned

C9_FailureIsIsolated ==
    /\ [][\A w \in Workers, b \in Docs :
            (wk[w] # wk'[w] /\ wk[w].entry.document_id # b
                            /\ wk'[w].entry.document_id # b) =>
                /\ HasKey(blob, b) = HasKey(blob', b)
                /\ (HasKey(blob, b) => blob'[b] = blob[b])
                /\ HasKey(result, b) = HasKey(result', b)
                /\ (HasKey(result, b) => result'[b] = result[b])
                /\ OfDoc(stream', b) = OfDoc(stream, b)]_vars
    /\ [][\A w \in Workers :
            (InAttempt(w) /\ wk[w].entry_id \in abandoned' \ abandoned) =>
                wk'[w].pc = "poll"]_vars
    /\ \A a \in Docs, b \in Docs :
        /\ []((a # b /\ Failed(a) /\ b \in DOMAIN queued)
                => <>Delivered(EntryOf(b), 1))
        /\ []((a # b /\ Failed(a)
                     /\ KindOf(b) \in {PYPDF, GEMINI}
                     /\ \E w \in Workers : <<w, EntryOf(b)>> \in handed)
                => <>(Completed(b) \/ EntryOf(b) \in faulted))

\* A failed before B was enqueued, and B is completed all the same
C9_Witness ==
    \E a \in Docs, b \in Docs :
        /\ a < b
        /\ Failed(a)
        /\ EntryOf(a) \notin faulted
        /\ b \in succeeded
        /\ Completed(b)

(* C10: a document whose staged blob is absent when the worker fetches it  *)
(* for its claimed entry never reaches completed: no result record is      *)
(* written for it and its entry is never acknowledged.                     *)
C10_MissingBlobNeverCompletes ==
    \A d \in DOMAIN queued :
        queued[d].entry_id \in missing =>
            /\ ~HasKey(result, d)
            /\ queued[d].entry_id \in pel
            /\ GetDocumentStatus(d).status # "completed"

C10_Witness ==
    \E d \in DOMAIN queued :
        /\ queued[d].entry_id \in missing
        /\ queued[d].parser_type = PYPDF
        /\ Quiet

(* C11: get_document_status on an id that queue_document never returned   *)
(* answers {status: not_found}, whatever the log, the blob store and the   *)
(* Result Store hold.                                                      *)
C11_UnseenIsNotFound ==
    /\ \A d \in (Docs \cup {UnseenDoc}) \ DOMAIN queued :
         GetDocumentStatus(d) = [status |-> "not_found"]
    /\ (st.pc = "ready" /\ st.response # NoResponse /\ st.document_id = UnseenDoc)
         => st.response = [status |-> "not_found"]

C11_Witness ==
    /\ st.pc = "ready"
    /\ st.document_id = UnseenDoc
    /\ st.scanned
    /\ st.response.status = "not_found"
    /\ Len(stream) = 2
    /\ DOMAIN result # {}
    /\ DOMAIN blob # {}

(* C12 as claimed: every document has at most one unacknowledged entry in  *)
(* the group, counting entries not yet delivered, entries delivered and    *)
(* not acknowledged, and the completed marker.                             *)
InLog(id) == \E i \in 1..Len(stream) : stream[i].id = id

Unacked(id) == (InLog(id) /\ ~Delivered(id, 1)) \/ id \in pel

UnackedOf(d) ==
    {id \in 1..Len(allEntries) : allEntries[id].fields.document_id = d /\ Unacked(id)}

C12_OneUnackedEntry ==
    \A d \in Docs : Cardinality(UnackedOf(d)) <= 1

(* C12 as amended: every document has at most one entry in the log, its    *)
(* queued entry or the completed marker that replaced it, and at most two  *)
(* unacknowledged entries in the group: the claimed entry and the marker.  *)
C12_OneEntryInLog ==
    \A d \in Docs :
        /\ Len(Matching(stream, d)) <= 1
        /\ Cardinality(UnackedOf(d)) <= 2

\* the marker is appended and the claimed entry is still pending
C12_Witness ==
    \E d \in Docs :
        /\ Cardinality(UnackedOf(d)) = 2
        /\ Len(Matching(stream, d)) = 1
        /\ Head(Matching(stream, d)).fields.status = "completed"

(* C13: an entry is acknowledged only after store_document has written     *)
(* the result of its document, and the steps of an attempt follow one      *)
(* another in the order claimed, parsed, summarized, persisted,            *)
(* acknowledged.                                                           *)
StepsAfter(pc) ==
    CASE pc = "poll" -> {"fetch"}
      [] pc = "fetch" -> {"parse", "poll"}
      [] pc = "parse" -> {"summarize", "poll"}
      [] pc = "summarize" -> {"store_set", "poll"}
      [] pc = "store_set" -> {"store_scan", "poll"}
      [] pc = "store_scan" -> {"store_xdel", "ack", "poll"}
      [] pc = "store_xdel" -> {"store_xadd", "poll"}
      [] pc = "store_xadd" -> {"store_delete", "poll"}
      [] pc = "store_delete" -> {"ack", "poll"}
      [] pc = "ack" -> {"poll"}
      [] OTHER -> {}

C13_PersistBeforeAck ==
    /\ [][\A id \in 1..Len(deliveries') :
            (Delivered(id, 1)' /\ id \notin pel') =>
                /\ HasKey(result', allEntries'[id].fields.document_id)
                /\ allEntries'[id].fields.document_id \in DOMAIN stored']_vars
    /\ [][\A w \in Workers :
            wk'[w] # wk[w] => wk'[w].pc \in StepsAfter(wk[w].pc)]_vars
    /\ [][\A w \in Workers :
            (wk[w].pc = "ack" /\ wk'[w].pc = "poll" /\ wk[w].entry_id \notin pel')
                => HasKey(result, wk[w].document_id)]_vars

C13_Witness ==
    \E id \in 1..Len(allEntries) :
        /\ Acked(id)
        /\ HasKey(result, allEntries[id].fields.document_id)

(* C14: when a step between claim and acknowledge raises, or the attempt   *)
(* is given up, acknowledge_processing is not called for the claimed       *)
(* entry: it stays in the pending list for the rest of the execution and   *)
(* no worker holds it any more.                                            *)
C14_RaisedStaysPending ==
    \A id \in abandoned \cup faulted :
        /\ id \in pel
        /\ ~Acked(id)
        /\ \A w \in Workers : wk[w].entry_id # id

\* the exception came out of store_document: the record is written, the
\* claimed entry is still in the log
C14_Witness ==
    \E id \in faulted :
        /\ InLog(id)
        /\ HasKey(result, allEntries[id].fields.document_id)
        /\ Quiet

(* C15: a document is attempted at most once: an entry whose attempt       *)
(* failed or was skipped is behind the group's last-delivered-id, no       *)
(* worker holds it again, and no worker parses or summarizes its document  *)
(* again.                                                                  *)
C15_AttemptedOnce ==
    /\ \A id \in abandoned :
         /\ id <= lastDelivered
         /\ \A w \in Workers : InAttempt(w) => wk[w].entry_id # id
    /\ \A w \in Workers :
         wk[w].pc \in {"parse", "summarize"} =>
            \A id \in abandoned : allEntries[id].fields.document_id # wk[w].document_id

\* a worker is at work on a later entry after an earlier one was given up
C15_Witness ==
    \E id \in abandoned, w \in Workers :
        /\ allEntries[id].fields.status = "queued"
        /\ wk[w].pc = "parse"
        /\ wk[w].entry_id > id

(* C16: an entry read from the group whose status is not queued, such as   *)
(* the completed marker, is skipped: get_next_document does not return     *)
(* it, no worker gets past the fetch with it, and once delivered it stays  *)
(* in the pending list.                                                    *)
C16_MarkerIsSkipped ==
    \A id \in 1..Len(allEntries) :
        allEntries[id].fields.status # "queued" =>
            /\ \A w \in Workers : <<w, id>> \notin handed
            /\ \A w \in Workers : wk[w].entry_id = id => wk[w].pc = "fetch"
            /\ Delivered(id, 1) => id \in pel

C16_Witness ==
    \E id \in abandoned :
        /\ allEntries[id].fields.status = "completed"
        /\ id \notin faulted
        /\ id \in pel

(* C17: queue_document stages the blob before it appends the entry: a     *)
(* queued entry exists only for a document whose blob SETEX has written,   *)
(* and a worker that fetches for a queued entry misses the blob only when  *)
(* it was staged and is gone without store_document having run for the     *)
(* document, that is, when its TTL ran out in between.                     *)
C17_StagedBeforeQueued ==
    /\ \A id \in 1..Len(allEntries) :
         allEntries[id].fields.status = "queued" =>
            allEntries[id].fields.document_id \in staged
    /\ \A id \in missing :
         /\ allEntries[id].fields.document_id \in staged
         /\ allEntries[id].fields.document_id \notin DOMAIN stored
         /\ ~HasKey(result, allEntries[id].fields.document_id)

C17_Witness ==
    \E id \in missing :
        /\ allEntries[id].fields.document_id \in staged
        /\ ~HasKey(blob, allEntries[id].fields.document_id)
        /\ InLog(id)
        /\ Quiet

(* C18 as claimed: once a document is completed its log entry, the marker  *)
(* included, is eventually removed from the log.                           *)
C18_CompletedIsPruned ==
    \A d \in Docs : [](d \in succeeded => <>(Matching(stream, d) = <<>>))

(* C18 as amended: the queued entry of a completed document is removed,    *)
(* but the completed marker that replaces it is never removed: the log     *)
(* keeps one entry for every completed document.                           *)
C18_MarkerStays ==
    /\ [][\A d \in succeeded' :
            /\ Len(Matching(stream', d)) = 1
            /\ Head(Matching(stream', d)).fields.status = "completed"]_vars
    /\ [][\A i \in 1..Len(stream) :
            stream[i].fields.status = "completed" =>
                \E j \in 1..Len(stream') : stream'[j] = stream[i]]_vars
    /\ [][Len(stream') >= Cardinality(succeeded')]_vars

C18_Witness ==
    /\ Cardinality(succeeded) = 2
    /\ Len(stream) = 2
    /\ \A i \in 1..Len(stream) : stream[i].id \in abandoned
    /\ Quiet

(* C19: every staged blob is eventually absent from the blob store,        *)
(* deleted by store_document or expired by its TTL, and no blob is ever    *)
(* staged without a TTL.                                                   *)
C19_BlobsGoAway ==
    /\ \A d \in Docs : [](HasKey(blob, d) => <>(~HasKey(blob, d)))
    /\ [][\A d \in DOMAIN blob' : blob'[d].ttl > 0]_vars

\* the enqueue failed after staging and the orphan has expired
C19_Witness ==
    \E d \in staged :
        /\ d \notin DOMAIN queued
        /\ gw.pc = "idle"
        /\ ~HasKey(blob, d)

(* C20: get_document_status never answers not_found for a document whose   *)
(* queue_document call has returned, however its two reads interleave with *)
(* the writes of store_document for that document.                         *)
C20_NeverNotFound ==
    (st.pc = "ready" /\ st.document_id \in DOMAIN queued)
        => st.response.status # "not_found"

\* the response get_document_status gives from the Result Store record
\* that store_document wrote for d
CompletedWith(d) ==
    [status |-> "completed", content |-> stored[d].content, summary |-> stored[d].summary]

\* the status call has returned completed with content and summary
AnsweredCompleted ==
    /\ st.pc = "ready"
    /\ st.response.status = "completed"
    /\ "content" \in DOMAIN st.response
    /\ "summary" \in DOMAIN st.response

(* C21: completed is stable. The Result Store record of a document is      *)
(* written at most once (SET runs only while the key is unset) and is      *)
(* never deleted or overwritten afterwards; a response completed with      *)
(* content and summary is the record that store_document wrote, and from   *)
(* then on every call of get_document_status for that document answers     *)
(* completed with that same content and summary.                           *)
C21_CompletedIsStable ==
    /\ [][\A d \in DOMAIN result : HasKey(result', d) /\ result'[d] = result[d]]_vars
    /\ [][\A w \in Workers :
            (wk[w].pc = "store_set" /\ wk'[w].pc = "store_scan")
                => ~HasKey(result, wk[w].document_id)]_vars
    /\ [][\A d \in Docs \cup {UnseenDoc} :
            (AnsweredCompleted /\ st.document_id = d) =>
                /\ HasKey(stored, d)
                /\ st.response = CompletedWith(d)
                /\ GetDocumentStatus(d) = st.response
                /\ (GetDocumentStatus(d))' = st.response]_vars
    /\ [][\A d \in DOMAIN result :
            (st.pc = "ready" /\ st'.pc = "ready" /\ st' # st /\ st'.document_id = d)
                => st'.response = GetDocumentStatus(d)]_vars

C21_Witness ==
    /\ AnsweredCompleted
    /\ st.document_id \in succeeded
    /\ st.response.content # <<>>
    /\ \E d \in DOMAIN result : d # st.document_id /\ stored[d] # stored[st.document_id]

\* a worker has claimed the queued entry of d and its attempt has not ended
InProgress(d) == \E w \in Workers : InAttempt(w) /\ wk[w].entry_id = EntryOf(d)

\* every status value ever appended to the log, and every status answered
StatusesWritten == {allEntries[i].fields.status : i \in 1..Len(allEntries)}
OnlyKnownStatuses ==
    /\ StatusesWritten \subseteq {"queued", "completed"}
    /\ \A d \in Docs \cup {UnseenDoc} :
         GetDocumentStatus(d).status \in {"queued", "completed", "not_found"}
    /\ (st.pc = "ready" /\ st.response # NoResponse)
         => st.response.status \in {"queued", "completed", "not_found"}

(* C22: no operation writes the status processing: the log only ever holds *)
(* queued and completed, get_document_status only answers queued,          *)
(* completed or not_found, and a document that is claimed and in progress, *)
(* or whose processing failed, reports queued for as long as its entry     *)
(* stays in the log.                                                       *)
C22_QueuedWhileInLog ==
    /\ OnlyKnownStatuses
    /\ \A d \in DOMAIN queued :
         (InLog(EntryOf(d)) /\ (InProgress(d) \/ Failed(d)))
             => GetDocumentStatus(d).status = "queued"

(* C22, amended: as above, but the document reports queued only until its  *)
(* Result Store record is written; from the SET of store_document on it    *)
(* reports completed, also while its queued entry is still in the log and  *)
(* also when the attempt fails after the SET.                              *)
C22_QueuedUntilStored ==
    /\ OnlyKnownStatuses
    /\ \A d \in DOMAIN queued :
         (InLog(EntryOf(d)) /\ (InProgress(d) \/ Failed(d))) =>
             /\ ~HasKey(result, d) => GetDocumentStatus(d).status = "queued"
             /\ HasKey(result, d) => GetDocumentStatus(d).status = "completed"
    /\ \A d \in DOMAIN queued :
         (st.pc = "ready" /\ st.document_id = d /\ st.scanned /\ InLog(EntryOf(d)))
             => st.response.status = "queued"

C22_Witness ==
    \E d \in DOMAIN queued, e \in DOMAIN queued :
        /\ Failed(d) /\ InLog(EntryOf(d)) /\ ~HasKey(result, d)
        /\ st.pc = "ready" /\ st.document_id = d /\ st.scanned /\ st.response.status = "queued"
        /\ InProgress(e) /\ InLog(EntryOf(e)) /\ HasKey(result, e)

====
